---- MODULE Spec2Model ----
(***************************************************************************)
(* Model of src/src/Game_tamagotchi/model.py: the phase table              *)
(* (DictOfRanges, Kind), the clamped parameters (CreatureParameter and its *)
(* five subclasses), the actions, and the Creature that owns them.         *)
(*                                                                         *)
(* Numbers.  Parameter values, bounds, initials and action amounts are     *)
(* Python floats that are multiples of 0.5; the model stores them in       *)
(* half-units (the integer 2 * x), on which the float arithmetic of the    *)
(* code is exact.  Ages, durations and range keys are Python ints and are  *)
(* stored as they are.                                                     *)
(*                                                                         *)
(* Objects.  None is the empty tuple <<>>.  A reference to a MaturePhase   *)
(* is its position in mature_phases; a lookup returns <<ref>> or None,     *)
(* get_range returns the tuple <<left, right>> or None.  A dict is the     *)
(* sequence of its items in insertion order.  An exception is the name of  *)
(* its class; exc holds the exception the last call raised, or "None".     *)
(* A dict item is [key, val].                                              *)
(***************************************************************************)
EXTENDS Integers, Sequences, FiniteSets, TLC

VARIABLES
    mature_phases,      \* the MaturePhase objects a Kind was constructed from
    kind,               \* the Kind: [phases (dict of ranges), max_age]
    ret,                \* the last phase-table lookup: [op, key, value]
    age,                \* Creature.__age
    params,             \* Creature.params: dict class -> CreatureParameter
    player_actions,     \* Creature.player_actions
    creature_actions,   \* Creature.creature_actions
    history,            \* Creature.history
    exc,                \* exception raised by the last call, or "None"
    calls               \* number of calls made on the creature so far

vars == <<mature_phases, kind, ret, age, params, player_actions,
          creature_actions, history, exc, calls>>

creature_vars == <<age, params, player_actions, creature_actions, history>>

----------------------------------------------------------------------------
(* Bounds of the model. *)

\* The creature is driven for at most this many calls of its interface.
MaxCalls == 5
MaxPlayCalls == 2

\* The tick-only specification runs update() at most this many times.
MaxTicks == 3

\* Kind construction is explored for up to this many phases ...
MaxPhases == 3

\* ... each with a duration in -MaxNegDays..MaxDays (zero and negative
\* durations included).
MaxDays == 3

MaxNegDays == 1

\* Parameter specs drawn as inputs: min in -MaxAbsMin..MaxAbsMin, max - min in
\* 0..MaxWidth, assigned values up to MaxOvershoot outside [min, max].
MaxAbsMin == 2

MaxWidth == 3

MaxOvershoot == 2

----------------------------------------------------------------------------
(* Python values. *)

None == <<>>

NoException == "None"

\* The classes collected by CreatureParameter.__subclasses__().
Parameters == {"Health", "Satiety", "Thirst", "Tiredness", "Mood"}

\* All orders in which a set can be iterated.
Orders(S) ==
    {o \in [1..Cardinality(S) -> S] : \A i, j \in DOMAIN o : i # j => o[i] # o[j]}

----------------------------------------------------------------------------
(* DictOfRanges *)

\* dict.__setitem__: a new key is appended, an existing key keeps its place.
DictSetItem(d, key, value) ==
    IF \E i \in 1..Len(d) : d[i].key = key
    THEN [i \in 1..Len(d) |->
            IF d[i].key = key THEN [key |-> key, val |-> value] ELSE d[i]]
    ELSE Append(d, [key |-> key, val |-> value])

\* DictOfRanges.__init__: every key must be a tuple of two ints.
DictOfRangesInit(mappable) ==
    IF \E i \in 1..Len(mappable) :
            \/ Len(mappable[i].key) # 2
            \/ mappable[i].key[1] \notin Int
            \/ mappable[i].key[2] \notin Int
    THEN [exc |-> "ValueError", dict |-> <<>>]
    ELSE [exc |-> NoException, dict |-> mappable]

\* The loop shared by __getitem__ and get_range: position of the first item
\* whose range contains key, 0 when the loop falls through.
RECURSIVE FirstContaining(_, _, _)
FirstContaining(d, key, i) ==
    IF i > Len(d) THEN 0
    ELSE IF d[i].key[1] <= key /\ key <= d[i].key[2] THEN i
    ELSE FirstContaining(d, key, i + 1)

\* DictOfRanges.__getitem__ with an int key.
GetItem(d, key) ==
    LET i == FirstContaining(d, key, 1) IN
    IF i # 0 THEN <<d[i].val>> ELSE None

\* DictOfRanges.get_range with an int key.
GetRange(d, key) ==
    LET i == FirstContaining(d, key, 1) IN
    IF i # 0 THEN d[i].key ELSE None

----------------------------------------------------------------------------
(* Kind *)

\* Mutant of RangeKey: the upper end is one too high.
RangeKeyOffByOne(left, days) == <<left, left + days>>

\* key = left, left + phase.days - 1
RangeKey(left, days) == <<left, left + days - 1>>

\* left = left + phase.days
NextLeft(left, days) == left + days

\* The for loop of Kind.__init__ from phase i on.
RECURSIVE KindLayout(_, _, _, _)
KindLayout(mp, i, left, phases) ==
    IF i > Len(mp) THEN [phases |-> phases, left |-> left]
    ELSE KindLayout(mp, i + 1, NextLeft(left, mp[i].days),
                    DictSetItem(phases, RangeKey(left, mp[i].days), i))

\* Kind.__init__: [exc, phases, max_age].
KindInit(mp) ==
    LET laid == KindLayout(mp, 1, 0, <<>>)
        d    == DictOfRangesInit(laid.phases)
    IN  IF d.exc # NoException
        THEN [exc |-> d.exc, phases |-> <<>>, max_age |-> -1]
        ELSE [exc |-> NoException, phases |-> d.dict, max_age |-> laid.left - 1]

\* dict.__contains__ and dict.__getitem__ of a plain dict.
HasKey(d, key) == \E i \in 1..Len(d) : d[i].key = key

DictGet(d, key) == d[CHOOSE i \in 1..Len(d) : d[i].key = key].val

Keys(d) == {d[i].key : i \in 1..Len(d)}

----------------------------------------------------------------------------
(* CreatureParameter and its subclasses *)

\* Mutant of CreatureParameterInit: a parameter starts at its min.
CreatureParameterInitAtMin(initial, left, right) ==
    [value |-> left, min |-> left, max |-> right]

\* CreatureParameter.__init__: the initial value is stored as given.
CreatureParameterInit(initial, left, right) ==
    [value |-> initial, min |-> left, max |-> right]

\* Mutant of value_setter: the upper bound is not enforced.
value_setter_unbounded_above(p, new_value) ==
    IF new_value <= p.min THEN [p EXCEPT !.value = p.min]
    ELSE [p EXCEPT !.value = new_value]

\* The value setter.
value_setter(p, new_value) ==
    IF new_value <= p.min THEN [p EXCEPT !.value = p.min]
    ELSE IF p.max <= new_value THEN [p EXCEPT !.value = p.max]
    ELSE [p EXCEPT !.value = new_value]

\* params[cls].value = new_value on the dict ps.
SetValue(ps, cls, new_value) ==
    DictSetItem(ps, cls, value_setter(DictGet(ps, cls), new_value))

\* Per-tick changes of the four simple rules, in half-units.
SatietyDelta == -2

ThirstDelta == 2

TirednessDelta == 1

MoodDelta == -1

\* sum(range) / 4 and 3 * (sum(range) / 4), both multiplied by 8 (by 4 for
\* the division, by 2 for the half-units of min and max).
critical_low(p) == p.min + p.max

critical_high(p) == 3 * (p.min + p.max)

\* The first condition of Health.update; a value v in half-units is 4 * v
\* on the scale of the thresholds.
HealthDecays(satiety, thirst, tiredness, mood) ==
    \/ 0 < satiety.value /\ 4 * satiety.value < critical_low(satiety)
    \/ 0 < mood.value /\ 4 * mood.value < critical_low(mood)
    \/ 4 * thirst.value > critical_high(thirst)
    \/ 4 * tiredness.value > critical_high(tiredness)

\* The elif condition of Health.update.
HealthCritical(satiety, thirst, tiredness, mood) ==
    \/ satiety.value = 0
    \/ mood.value = 0
    \/ 4 * thirst.value = critical_high(thirst)
    \/ 4 * tiredness.value = critical_high(tiredness)

\* Health.update's change of its own value, in half-units.
HealthDelta(satiety, thirst, tiredness, mood) ==
    IF HealthDecays(satiety, thirst, tiredness, mood) THEN -1
    ELSE IF HealthCritical(satiety, thirst, tiredness, mood) THEN -2
    ELSE 1

\* Health.update on the live dict ps: [exc, params].
HealthUpdate(ps) ==
    IF ~ ({"Satiety", "Thirst", "Tiredness", "Mood"} \subseteq Keys(ps))
    THEN [exc |-> "KeyError", params |-> ps]
    ELSE LET health == DictGet(ps, "Health")
             delta  == HealthDelta(DictGet(ps, "Satiety"), DictGet(ps, "Thirst"),
                                   DictGet(ps, "Tiredness"), DictGet(ps, "Mood"))
         IN  [exc |-> NoException,
              params |-> SetValue(ps, "Health", health.value + delta)]

\* Mutant of ParamUpdate: satiety falls by 0.5 a tick, as mood does.
ParamUpdateSlowHunger(ps, cls) ==
    IF cls = "Health" THEN HealthUpdate(ps)
    ELSE [exc |-> NoException,
          params |-> SetValue(ps, cls, DictGet(ps, cls).value +
                        (CASE cls = "Satiety"   -> MoodDelta
                           [] cls = "Thirst"    -> ThirstDelta
                           [] cls = "Tiredness" -> TirednessDelta
                           [] cls = "Mood"      -> MoodDelta))]

\* param.update() of the parameter of class cls: [exc, params].
ParamUpdate(ps, cls) ==
    LET p == DictGet(ps, cls) IN
    CASE cls = "Health"    -> HealthUpdate(ps)
      [] cls = "Satiety"   ->
            [exc |-> NoException, params |-> SetValue(ps, cls, p.value + SatietyDelta)]
      [] cls = "Thirst"    ->
            [exc |-> NoException, params |-> SetValue(ps, cls, p.value + ThirstDelta)]
      [] cls = "Tiredness" ->
            [exc |-> NoException, params |-> SetValue(ps, cls, p.value + TirednessDelta)]
      [] cls = "Mood"      ->
            [exc |-> NoException, params |-> SetValue(ps, cls, p.value + MoodDelta)]

----------------------------------------------------------------------------
(* Actions *)

\* The one Creature of the model, as the value of an action's creature field.
Self == <<"creature">>

\* The augmented assignments of each do(), in source order, in half-units.
Deltas(action) ==
    CASE action.cls = "Feed" ->
            <<[cls |-> "Satiety", delta |-> action.amount],
              [cls |-> "Tiredness", delta |-> -4]>>
      [] action.cls = "Give_to_drink" ->
            <<[cls |-> "Thirst", delta |-> -action.amount],
              [cls |-> "Tiredness", delta |-> -2]>>
      [] action.cls = "PlayPet" ->
            <<[cls |-> "Mood", delta |-> 3],
              [cls |-> "Satiety", delta |-> -1],
              [cls |-> "Tiredness", delta |-> 2],
              [cls |-> "Thirst", delta |-> 1]>>
      [] action.cls = "TrainPet" ->
            <<[cls |-> "Mood", delta |-> -1],
              [cls |-> "Satiety", delta |-> -1],
              [cls |-> "Tiredness", delta |-> 1],
              [cls |-> "Thirst", delta |-> 1]>>
      [] action.cls = "TeaseHead" -> <<[cls |-> "Mood", delta |-> 2]>>
      [] action.cls = "NoAction" -> <<>>
      [] action.cls = "ChaseTail" ->
            <<[cls |-> "Mood", delta |-> 2],
              [cls |-> "Tiredness", delta |-> 2]>>
      [] action.cls = "Sleep" -> <<[cls |-> "Tiredness", delta |-> -6]>>
      [] action.cls = "Miss" -> <<[cls |-> "Mood", delta |-> -4]>>

\* Mutant of ApplyDeltas: a do() stops after its first assignment.
ApplyFirstDelta(ps, ds, i) ==
    IF Len(ds) = 0 THEN [exc |-> NoException, params |-> ps]
    ELSE IF ~ HasKey(ps, ds[1].cls) THEN [exc |-> "KeyError", params |-> ps]
    ELSE [exc |-> NoException,
          params |-> SetValue(ps, ds[1].cls, DictGet(ps, ds[1].cls).value + ds[1].delta)]

\* The assignments of a do() from the i-th on; a missing parameter raises
\* KeyError and keeps what was assigned before it.
RECURSIVE ApplyDeltas(_, _, _)
ApplyDeltas(ps, ds, i) ==
    IF i > Len(ds) THEN [exc |-> NoException, params |-> ps]
    ELSE IF ~ HasKey(ps, ds[i].cls) THEN [exc |-> "KeyError", params |-> ps]
    ELSE ApplyDeltas(
            SetValue(ps, ds[i].cls, DictGet(ps, ds[i].cls).value + ds[i].delta),
            ds, i + 1)

\* action.do(): [exc, params].
Do(ps, action) ==
    IF action.cls # "NoAction" /\ action.creature = None
    THEN [exc |-> "AttributeError", params |-> ps]
    ELSE ApplyDeltas(ps, Deltas(action), 1)

\* action.__class__(**{**action.__dict__, 'creature': self})
Bind(action) == [action EXCEPT !.creature = Self]

\* prob = int(action.rand_coeff * 100); rand_coeff is kept in thousandths.
\* The percentage is truncated, not rounded: 0.999 gives 99.  The division is
\* the float result for the coefficients of the kinds below (0, 0.5, 0.999
\* and 1); binary floating point puts some products just under an integer
\* (int(0.29 * 100) is 28).
Prob(action) == (action.rand_coeff * 100) \div 1000

----------------------------------------------------------------------------
(* Creature *)

\* State(age) followed by save()'s setattr of every parameter value.
State(a, ps) ==
    [age |-> a, values |-> [cls \in Keys(ps) |-> DictGet(ps, cls).value]]

\* The loop of Creature.__init__ over kind[0].params, iterated in the given
\* order, from its i-th element on: [exc, params].
RECURSIVE InitParams(_, _, _)
InitParams(ps, order, i) ==
    IF i > Len(order) THEN [exc |-> NoException, params |-> ps]
    ELSE IF order[i].name \notin Parameters THEN [exc |-> "KeyError", params |-> ps]
    ELSE InitParams(
            DictSetItem(ps, order[i].name,
                CreatureParameterInit(order[i].initial, order[i].min, order[i].max)),
            order, i + 1)

\* Mutant of CarriedInitial: a zero initial is not replaced by the old value.
CarriedInitialIgnored(param, ps) == param.initial

\* initial = param.initial or self.params[cls].value
CarriedInitial(param, ps) ==
    IF param.initial # 0 THEN param.initial ELSE DictGet(ps, param.name).value

\* The loop of Creature._grow_up over kind[age].params, iterated in the given
\* order, from its i-th element on: [exc, params].
RECURSIVE GrowUpParams(_, _, _)
GrowUpParams(ps, order, i) ==
    IF i > Len(order) THEN [exc |-> NoException, params |-> ps]
    ELSE IF order[i].name \notin Parameters THEN [exc |-> "KeyError", params |-> ps]
    ELSE IF order[i].initial = 0 /\ ~ HasKey(ps, order[i].name)
    THEN [exc |-> "KeyError", params |-> ps]
    ELSE GrowUpParams(
            DictSetItem(ps, order[i].name,
                CreatureParameterInit(CarriedInitial(order[i], ps),
                                      order[i].min, order[i].max)),
            order, i + 1)

\* Mutant of SetActions: only the player actions are replaced.
SetActionsKeepsCreatureActions(mp, k, a, old_player, old_creature) ==
    LET phase == GetItem(k.phases, a) IN
    IF phase = None
    THEN [exc |-> "AttributeError", player_actions |-> old_player,
          creature_actions |-> old_creature]
    ELSE [exc |-> NoException,
          player_actions |-> {Bind(x) : x \in mp[phase[1]].player_actions},
          creature_actions |-> old_creature]

\* Creature.__set_actions at age a: [exc, player_actions, creature_actions];
\* kind[a] is None for an age no range contains, and None has no attributes.
SetActions(mp, k, a, old_player, old_creature) ==
    LET phase == GetItem(k.phases, a) IN
    IF phase = None
    THEN [exc |-> "AttributeError", player_actions |-> old_player,
          creature_actions |-> old_creature]
    ELSE [exc |-> NoException,
          player_actions |-> {Bind(x) : x \in mp[phase[1]].player_actions},
          creature_actions |-> {Bind(x) : x \in mp[phase[1]].creature_actions}]

\* The for loop of Creature.update from the i-th parameter on: [exc, params].
RECURSIVE UpdateParams(_, _)
UpdateParams(ps, i) ==
    IF i > Len(ps) THEN [exc |-> NoException, params |-> ps]
    ELSE LET r == ParamUpdate(ps, ps[i].key) IN
         IF r.exc # NoException THEN r ELSE UpdateParams(r.params, i + 1)

\* Mutant of Save: the new State replaces the history.
SaveOverwrites(h, a, ps) == <<State(a, ps)>>

\* Creature.save(): the State of the creature is appended to the history.
Save(h, a, ps) == Append(h, State(a, ps))

\* A Creature exists when its constructor found kind[0].
Constructed == GetItem(kind.phases, 0) # None

\* Mutant of Update: the State is saved before the parameters are updated.
UpdateSavesFirst ==
    /\ Constructed
    /\ LET r == UpdateParams(params, 1) IN
        /\ params' = r.params
        /\ exc' = r.exc
        /\ history' = Append(history, State(age, params))
    /\ UNCHANGED <<mature_phases, kind, ret, age, player_actions, creature_actions>>

\* Creature.update()
Update ==
    /\ Constructed
    /\ LET r == UpdateParams(params, 1) IN
        /\ params' = r.params
        /\ exc' = r.exc
        /\ history' = IF r.exc = NoException
                      THEN Save(history, age, r.params)
                      ELSE history
    /\ UNCHANGED <<mature_phases, kind, ret, age, player_actions, creature_actions>>

\* Creature._grow_up() with the age already stored as a and kind[a].params
\* iterated in the given order: [exc, params, player_actions, creature_actions].
GrowUp(a, order) ==
    LET grown == GrowUpParams(params, order, 1) IN
    IF grown.exc # NoException
    THEN [exc |-> grown.exc, params |-> grown.params,
          player_actions |-> player_actions, creature_actions |-> creature_actions]
    ELSE LET acts == SetActions(mature_phases, kind, a, player_actions,
                                creature_actions)
         IN  [exc |-> acts.exc, params |-> grown.params,
              player_actions |-> acts.player_actions,
              creature_actions |-> acts.creature_actions]

\* Mutant of PhaseChanged: every assignment counts as a change of phase.
PhaseChangedAlways(old_phase, new_phase) == TRUE

\* The age setter's comparison of the two ranges.
PhaseChanged(old_phase, new_phase) == old_phase # new_phase

\* creature.age = new_value
SetAge(new_value) ==
    /\ Constructed
    /\ LET old_phase == GetRange(kind.phases, age)
           new_phase == GetRange(kind.phases, new_value)
           phase     == GetItem(kind.phases, new_value)
       IN
        /\ age' = new_value
        /\ IF ~ PhaseChanged(old_phase, new_phase)
           THEN /\ exc' = NoException
                /\ UNCHANGED <<params, player_actions, creature_actions>>
           ELSE IF phase = None
           THEN /\ exc' = "AttributeError"
                /\ UNCHANGED <<params, player_actions, creature_actions>>
           ELSE \E order \in Orders(mature_phases[phase[1]].params) :
                    LET r == GrowUp(new_value, order) IN
                    /\ exc' = r.exc
                    /\ params' = r.params
                    /\ player_actions' = r.player_actions
                    /\ creature_actions' = r.creature_actions
    /\ UNCHANGED <<mature_phases, kind, ret, history>>

\* The ages the driver assigns: every age of the kind and one beyond each end.
AgeInputs == (-1)..(kind.max_age + 1)

\* Mutant of DoPlayerAction: the action also saves the State.
DoPlayerActionSaves(action) ==
    /\ Constructed
    /\ action \in player_actions
    /\ LET r == Do(params, action) IN
        /\ params' = r.params
        /\ exc' = r.exc
        /\ history' = Append(history, State(age, r.params))
    /\ UNCHANGED <<mature_phases, kind, ret, age, player_actions, creature_actions>>

\* action.do() of a player action the creature offers.
DoPlayerAction(action) ==
    /\ Constructed
    /\ action \in player_actions
    /\ LET r == Do(params, action) IN
        /\ params' = r.params
        /\ exc' = r.exc
    /\ UNCHANGED <<mature_phases, kind, ret, age, player_actions,
                   creature_actions, history>>

\* Mutant of Draw: the chosen action always wins the draw.
DrawAlwaysActs(action) == {action}

\* The outcomes of choice(sample([action, no_action], counts=[prob, 100 - prob],
\* k=100)) for a rand_coeff in [0, 1]: the action when prob > 0, NoAction()
\* when prob < 100.
Draw(action) ==
    {x \in {action, [cls |-> "NoAction", creature |-> None]} :
        \/ x = action /\ Prob(action) > 0
        \/ x # action /\ Prob(action) < 100}

\* Creature.random_action()
RandomAction ==
    /\ Constructed
    /\ IF creature_actions = {}
       THEN /\ exc' = "IndexError"
            /\ UNCHANGED params
       ELSE \E action \in creature_actions :
                IF "rand_coeff" \notin DOMAIN action
                THEN /\ exc' = "AttributeError"
                     /\ UNCHANGED params
                ELSE \E winner \in Draw(action) :
                        LET r == Do(params, winner) IN
                        /\ params' = r.params
                        /\ exc' = r.exc
    /\ UNCHANGED <<mature_phases, kind, ret, age, player_actions,
                   creature_actions, history>>

\* Kind(name, image, *mp) followed by Creature(kind, name), with kind[0].params
\* iterated in any order.
NewCreature(mp) ==
    LET k == KindInit(mp) IN
    /\ mature_phases = mp
    /\ kind = [phases |-> k.phases, max_age |-> k.max_age]
    /\ ret = [op |-> "None", key |-> 0, value |-> None]
    /\ age = 0
    /\ history = <<>>
    /\ calls = 0
    /\ LET first == GetItem(k.phases, 0) IN
       IF k.exc # NoException \/ first = None
       THEN /\ exc = (IF k.exc # NoException THEN k.exc ELSE "AttributeError")
            /\ params = <<>>
            /\ player_actions = {}
            /\ creature_actions = {}
       ELSE \E order \in Orders(mp[first[1]].params) :
                LET made == InitParams(<<>>, order, 1)
                    acts == SetActions(mp, k, 0, {}, {})
                IN  /\ params = made.params
                    /\ exc = (IF made.exc # NoException THEN made.exc ELSE acts.exc)
                    /\ player_actions = acts.player_actions
                    /\ creature_actions = acts.creature_actions

----------------------------------------------------------------------------
(* The kinds the creature is explored on.  Real values are given in the     *)
(* comments, the records hold half-units.                                   *)

KindParameter(name, initial, min, max) ==
    [name |-> name, initial |-> initial, min |-> min, max |-> max]

MaturePhase(days, parameters, player, creature) ==
    [days |-> days, params |-> parameters, player_actions |-> player,
     creature_actions |-> creature]

Feed(amount) == [cls |-> "Feed", amount |-> amount, creature |-> None]

Give_to_drink(amount) == [cls |-> "Give_to_drink", amount |-> amount, creature |-> None]

PlayPet == [cls |-> "PlayPet", creature |-> None]

TrainPet == [cls |-> "TrainPet", creature |-> None]

TeaseHead == [cls |-> "TeaseHead", creature |-> None]

ChaseTail(rand_coeff) == [cls |-> "ChaseTail", rand_coeff |-> rand_coeff, creature |-> None]

Sleep(rand_coeff) == [cls |-> "Sleep", rand_coeff |-> rand_coeff, creature |-> None]

\* Two phases over Satiety and Tiredness.  The second phase is narrower, carries
\* the satiety over (initial 0) and restarts the tiredness at 1.5.
\*   phase 1, 2 days: Satiety(2, 0, 3), Tiredness(1, 0, 2), Feed(1.0), Sleep(0.5)
\*   phase 2, 1 day:  Satiety(0, 0, 1.5), Tiredness(1.5, 1, 2), Feed(5.0), no creature action
TwoPhaseKind ==
    << MaturePhase(2, {KindParameter("Satiety", 4, 0, 6),
                       KindParameter("Tiredness", 2, 0, 4)},
                   {Feed(2)}, {Sleep(500)}),
       MaturePhase(1, {KindParameter("Satiety", 0, 0, 3),
                       KindParameter("Tiredness", 3, 2, 4)},
                   {Feed(10)}, {}) >>

\* Kind with phase (days=3, Satiety initial=10 min=0 max=20).
ScenarioKind == <<MaturePhase(3, {KindParameter("Satiety", 20, 0, 40)}, {}, {})>>

\* Three phases of one day over Mood and Tiredness.
\*   phase 1: Mood(1, 0, 2), Tiredness(0, 0, 2), TeaseHead, ChaseTail(1.0)
\*   phase 2: Mood(0, 0.5, 3), Tiredness(0, 0, 1), TeaseHead, Sleep(0.0)
\*   phase 3: Mood(2.5, 1, 3), Tiredness(0.5, 0, 3), no player action, Sleep(1.0)
ThreePhaseKind ==
    << MaturePhase(1, {KindParameter("Mood", 2, 0, 4),
                       KindParameter("Tiredness", 0, 0, 4)},
                   {TeaseHead}, {ChaseTail(1000)}),
       MaturePhase(1, {KindParameter("Mood", 0, 1, 6),
                       KindParameter("Tiredness", 0, 0, 2)},
                   {TeaseHead}, {Sleep(0)}),
       MaturePhase(1, {KindParameter("Mood", 5, 2, 6),
                       KindParameter("Tiredness", 1, 0, 6)},
                   {}, {Sleep(1000)}) >>

\* One phase of two days for Feed(amount=5) on satiety 10 of (0, 20), with a
\* tiredness of 1.5 that the feeding takes to its min.
FeedScenarioKind ==
    <<MaturePhase(2, {KindParameter("Satiety", 20, 0, 40),
                      KindParameter("Tiredness", 3, 0, 8)},
                  {Feed(10)}, {})>>

\* One phase of one day over the four simple parameters, with every player
\* action and both creature actions.
\*   Satiety(1, 0, 1.5), Thirst(0.5, 0, 1), Tiredness(0.5, 0, 1), Mood(0.5, 0, 1.5)
\*   Feed(1.0), Give_to_drink(1.0), PlayPet, TrainPet, TeaseHead
\*   ChaseTail(0.999), Sleep(0.0)
PlayKind ==
    <<MaturePhase(1, {KindParameter("Satiety", 2, 0, 3),
                      KindParameter("Thirst", 1, 0, 2),
                      KindParameter("Tiredness", 1, 0, 2),
                      KindParameter("Mood", 1, 0, 3)},
                  {Feed(2), Give_to_drink(2), PlayPet, TrainPet, TeaseHead},
                  {ChaseTail(999), Sleep(0)})>>

Catalog == {TwoPhaseKind, ThreePhaseKind, ScenarioKind, FeedScenarioKind, PlayKind}

----------------------------------------------------------------------------
(* Specification of the creature: every call of its interface, in any      *)
(* order, up to MaxCalls calls.                                            *)

Init == \E mp \in Catalog : NewCreature(mp)

\* The four-parameter kind starts in 24 orders of its parameters and offers
\* seven actions; it is explored to MaxPlayCalls calls.
CallBound == IF mature_phases = PlayKind THEN MaxPlayCalls ELSE MaxCalls

Counted == calls < CallBound /\ calls' = calls + 1

Tick == Update /\ Counted

AssignAge == (\E new_value \in AgeInputs : SetAge(new_value)) /\ Counted

PlayerAction == (\E action \in player_actions : DoPlayerAction(action)) /\ Counted

AutonomousAction == RandomAction /\ Counted

Next == Tick \/ AssignAge \/ PlayerAction \/ AutonomousAction

Spec == Init /\ [][Next]_vars

----------------------------------------------------------------------------
(* Specification of the phase table: Kind(name, image, *mature_phases) for  *)
(* every list of up to MaxPhases phases with durations in                  *)
(* -MaxNegDays..MaxDays, then lookups by int keys.                         *)

PhaseLists ==
    UNION {[1..n -> {MaturePhase(d, {}, {}, {}) : d \in (-MaxNegDays)..MaxDays}] :
            n \in 0..MaxPhases}

InitKind ==
    \E mp \in PhaseLists :
        LET k == KindInit(mp) IN
        /\ mature_phases = mp
        /\ kind = [phases |-> k.phases, max_age |-> k.max_age]
        /\ exc = k.exc
        /\ ret = [op |-> "None", key |-> 0, value |-> None]
        /\ age = 0
        /\ params = <<>>
        /\ player_actions = {}
        /\ creature_actions = {}
        /\ history = <<>>
        /\ calls = 0

LookupKeys == (-1)..(MaxPhases * MaxDays)

\* kind[key]
LookupItem ==
    \E key \in LookupKeys :
        /\ ret' = [op |-> "__getitem__", key |-> key,
                   value |-> GetItem(kind.phases, key)]
        /\ exc' = NoException
        /\ UNCHANGED <<mature_phases, kind, creature_vars, calls>>

\* kind.get_range(key)
LookupRange ==
    \E key \in LookupKeys :
        /\ ret' = [op |-> "get_range", key |-> key,
                   value |-> GetRange(kind.phases, key)]
        /\ exc' = NoException
        /\ UNCHANGED <<mature_phases, kind, creature_vars, calls>>

NextKind == LookupItem \/ LookupRange

SpecKind == InitKind /\ [][NextKind]_vars

----------------------------------------------------------------------------
(* Specification of one parameter: a creature of a one-phase kind with one  *)
(* parameter, whose value is assigned from outside.                        *)

ParamSpecs ==
    {KindParameter(name, initial, lo, lo + w) :
        name \in Parameters, lo \in (-MaxAbsMin)..MaxAbsMin, w \in 0..MaxWidth,
        initial \in (-MaxAbsMin - MaxOvershoot)..(MaxAbsMin + MaxWidth + MaxOvershoot)}

InitParam == \E spec \in ParamSpecs : NewCreature(<<MaturePhase(1, {spec}, {}, {})>>)

\* creature.params[cls].value = new_value
AssignValue(cls, new_value) ==
    /\ Constructed
    /\ HasKey(params, cls)
    /\ params' = SetValue(params, cls, new_value)
    /\ exc' = NoException
    /\ UNCHANGED <<mature_phases, kind, ret, age, player_actions,
                   creature_actions, history, calls>>

AssignedValues == (-MaxAbsMin - MaxOvershoot)..(MaxAbsMin + MaxWidth + MaxOvershoot)

NextParam == \E cls \in Keys(params) : \E v \in AssignedValues : AssignValue(cls, v)

SpecParam == InitParam /\ [][NextParam]_vars

----------------------------------------------------------------------------
(* Specification of the ticks: a creature of a one-phase kind on which only *)
(* update() is called, MaxTicks times.                                     *)

SimpleParameters == {"Satiety", "Thirst", "Tiredness", "Mood"}

\* Satiety(2, 0, 3), Thirst(1.5, 0.5, 2), Tiredness(1, 0, 1.5), Mood(1, 0.5, 3)
FourParameterKind ==
    <<MaturePhase(3, {KindParameter("Satiety", 4, 0, 6),
                      KindParameter("Thirst", 3, 1, 4),
                      KindParameter("Tiredness", 2, 0, 3),
                      KindParameter("Mood", 2, 1, 6)}, {}, {})>>

\* One simple parameter with any range and any initial value, inside the
\* range or not.
OneParameterKinds ==
    {<<MaturePhase(3, {KindParameter(name, initial, lo, lo + w)}, {}, {})>> :
        name \in SimpleParameters, lo \in 0..MaxAbsMin, w \in 0..MaxWidth,
        initial \in 0..(MaxAbsMin + MaxWidth)}

\* Health with its four siblings.  Health starts at 10 of (0, 20) or at 0.5;
\* the siblings start on either side of the thresholds of Health.update:
\*   Satiety(0 | 0.5 | 2.5, 0, 4), Thirst(1 | 3 | 4, 0, 4),
\*   Tiredness(0.5 | 2, 0.5, 2.5), Mood(1 | 2.5, 0.5, 3.5)
HealthKinds ==
    {<<MaturePhase(3, {KindParameter("Health", h, 0, 40),
                       KindParameter("Satiety", s, 0, 8),
                       KindParameter("Thirst", t, 0, 8),
                       KindParameter("Tiredness", r, 1, 5),
                       KindParameter("Mood", m, 1, 7)}, {}, {})>> :
        h \in {20, 1}, s \in {0, 1, 5}, t \in {2, 6, 8}, r \in {1, 4}, m \in {2, 5}}

TickKinds == {ScenarioKind, FourParameterKind} \cup OneParameterKinds \cup HealthKinds

InitTicks == \E mp \in TickKinds : NewCreature(mp)

NextTicks == Update /\ Len(history) < MaxTicks /\ UNCHANGED calls

SpecTicks == InitTicks /\ [][NextTicks]_vars

----------------------------------------------------------------------------
(* Properties *)

\* The positions of the stored ranges that contain the age a.
Containing(a) ==
    {i \in 1..Len(kind.phases) :
        kind.phases[i].key[1] <= a /\ a <= kind.phases[i].key[2]}

Clamp(x, lo, hi) == IF x < lo THEN lo ELSE IF x > hi THEN hi ELSE x

\* Durations of the first n phases, added up.
RECURSIVE SumDays(_, _)
SumDays(mp, n) == IF n = 0 THEN 0 ELSE SumDays(mp, n - 1) + mp[n].days

\* C1 (as claimed): in every reachable state of a Creature every parameter it
\* owns has min <= value <= max.
C1_ParametersInRange ==
    Constructed =>
        \A i \in 1..Len(params) :
            /\ params[i].val.min <= params[i].val.value
            /\ params[i].val.value <= params[i].val.max

\* C2: assigning v to a parameter's value raises nothing, leaves min and max
\* as they were, and leaves the value at min when v <= min, at max when
\* v >= max, at v otherwise.
C2_AssignmentClamps ==
    [][\A cls \in Parameters : \A v \in AssignedValues :
        AssignValue(cls, v) =>
            LET p == DictGet(params, cls)
                q == DictGet(params', cls)
            IN  /\ exc' = NoException
                /\ q.min = p.min
                /\ q.max = p.max
                /\ v <= p.min => q.value = p.min
                /\ v >= p.max => q.value = p.max
                /\ (p.min < v /\ v < p.max) => q.value = v]_vars

\* C2 witness: a parameter constructed below its min now sits at its max,
\* so an assignment at or above max has been clamped.
C2_ClampedFromAbove ==
    /\ Constructed
    /\ \E spec \in mature_phases[1].params :
        /\ spec.initial < spec.min
        /\ spec.min < spec.max
        /\ DictGet(params, spec.name).value = spec.max

\* C3: update() makes the history one entry longer and keeps every earlier
\* entry at its position, unchanged.
C3_UpdateAppendsOne ==
    [][Update =>
        /\ Len(history') = Len(history) + 1
        /\ \A i \in 1..Len(history) : history'[i] = history[i]]_vars

\* C3 witness: update() has run on a history that already had an entry.
C3_SecondEntry == Len(history) = 2 /\ exc = NoException

\* C4: an age assignment into another phase range leaves every parameter with
\* the min and max of the new phase's spec and with the spec's initial, or
\* with its previous value when the initial is zero; the action sets are the
\* new phase's, bound to the creature.
C4_PhaseCrossingReinstantiates ==
    [][\A v \in AgeInputs :
        (SetAge(v) /\ Containing(v) # {} /\ Containing(age) # Containing(v)) =>
            \E i \in Containing(v) :
                LET phase == mature_phases[kind.phases[i].val] IN
                /\ \A cls \in Keys(params') :
                    \E spec \in phase.params :
                        LET q == DictGet(params', cls) IN
                        /\ spec.name = cls
                        /\ q.min = spec.min
                        /\ q.max = spec.max
                        /\ q.value = IF spec.initial # 0 THEN spec.initial
                                     ELSE DictGet(params, cls).value
                /\ player_actions' =
                        {[x EXCEPT !.creature = Self] : x \in phase.player_actions}
                /\ creature_actions' =
                        {[x EXCEPT !.creature = Self] : x \in phase.creature_actions}
      ]_vars

\* C4 witness: the first call moved the creature from phase 1 to phase 2 of
\* TwoPhaseKind; the satiety was carried over, the tiredness restarted.
C4_CrossedIntoSecondPhase ==
    /\ mature_phases = TwoPhaseKind
    /\ calls = 1
    /\ age = 2
    /\ DictGet(params, "Satiety") = [value |-> 4, min |-> 0, max |-> 3]
    /\ DictGet(params, "Tiredness") = [value |-> 3, min |-> 2, max |-> 4]
    /\ player_actions = {[cls |-> "Feed", amount |-> 10, creature |-> Self]}

\* C5: an age assignment within the phase range of the old age changes the
\* age and nothing else.
C5_SamePhaseChangesOnlyAge ==
    [][\A v \in AgeInputs :
        (SetAge(v) /\ Containing(v) # {} /\ Containing(age) = Containing(v)) =>
            /\ age' = v
            /\ UNCHANGED <<params, player_actions, creature_actions, history>>
      ]_vars

\* C5 witness: after a tick that moved the parameters off their initial
\* values, the age was assigned within phase 1.
C5_AgedWithinPhase ==
    /\ mature_phases = TwoPhaseKind
    /\ calls = 2
    /\ age = 1
    /\ Len(history) = 1
    /\ history[1].age = 0
    /\ DictGet(params, "Tiredness").value = 3

\* C6 (as claimed): the creature's age always lies in exactly one phase range
\* of its kind, within 0..max_age.
C6_AgeInOnePhase ==
    Constructed =>
        /\ Cardinality(Containing(age)) = 1
        /\ 0 <= age
        /\ age <= kind.max_age

\* C7 (as claimed): a lookup of an int key that no stored range contains
\* raises; it does not return.
C7_MissedLookupRaises ==
    (ret.op # "None" /\ Containing(ret.key) = {}) => exc # NoException

\* C8: for positive durations the ranges follow the list: range i is
\* [days before it, days up to it - 1] and maps to phase i, max_age is the
\* sum of the durations - 1, and every age in 0..max_age lies in exactly one
\* range, the one both lookups answer with.
C8_RangesPartitionAges ==
    (\A i \in 1..Len(mature_phases) : mature_phases[i].days > 0) =>
        /\ Len(kind.phases) = Len(mature_phases)
        /\ \A i \in 1..Len(kind.phases) :
            /\ kind.phases[i].key =
                    <<SumDays(mature_phases, i - 1), SumDays(mature_phases, i) - 1>>
            /\ kind.phases[i].val = i
        /\ kind.max_age = SumDays(mature_phases, Len(mature_phases)) - 1
        /\ \A a \in 0..kind.max_age :
            /\ Cardinality(Containing(a)) = 1
            /\ \A i \in Containing(a) :
                /\ GetItem(kind.phases, a) = <<i>>
                /\ GetRange(kind.phases, a) = kind.phases[i].key
        /\ \A a \in LookupKeys :
            (a < 0 \/ a > kind.max_age) => Containing(a) = {}

\* C8 witness: a kind of phases of 2, 1 and 3 days answered kind[3] with its
\* third phase.
C8_ThirdPhaseFound ==
    /\ Len(mature_phases) = 3
    /\ mature_phases[1].days = 2
    /\ mature_phases[2].days = 1
    /\ mature_phases[3].days = 3
    /\ kind.max_age = 5
    /\ ret = [op |-> "__getitem__", key |-> 3, value |-> <<3>>]

\* C9 (as claimed): the construction of a Kind with a duration that is zero
\* or negative raises, and no stored range is empty or inverted.
C9_NonPositiveDurationRejected ==
    /\ (ret.op = "None" /\ \E i \in 1..Len(mature_phases) : mature_phases[i].days <= 0)
            => exc # NoException
    /\ \A i \in 1..Len(kind.phases) : kind.phases[i].key[1] <= kind.phases[i].key[2]

\* The change of one tick claimed for each simple parameter, in half-units.
TickChange(cls) ==
    CASE cls = "Satiety"   -> -2
      [] cls = "Thirst"    -> 2
      [] cls = "Tiredness" -> 1
      [] cls = "Mood"      -> -1

\* C10: one update() changes satiety by -1, thirst by +1, tiredness by +0.5
\* and mood by -0.5, clamped into the parameter's [min, max]; on the kind
\* with Satiety(10, 0, 20) the satiety after n ticks is 10 - n, which is also
\* what the n-th entry of the history holds, for n up to 3.
C10_TickRules ==
    /\ [][Update =>
            \A cls \in Keys(params) \cap SimpleParameters :
                LET p == DictGet(params, cls)
                    q == DictGet(params', cls)
                IN  /\ q.value = Clamp(p.value + TickChange(cls), p.min, p.max)
                    /\ q.min = p.min
                    /\ q.max = p.max]_vars
    /\ [](mature_phases = ScenarioKind =>
            /\ DictGet(params, "Satiety").value = 20 - 2 * Len(history)
            /\ \A n \in 1..Len(history) :
                history[n].values["Satiety"] = 20 - 2 * n)

\* C10 witness: three ticks on the kind with Satiety(10, 0, 20) left satiety
\* 9, 8, 7 in the history.
C10_ThreeTicks ==
    /\ mature_phases = ScenarioKind
    /\ Len(history) = 3
    /\ history[1].values["Satiety"] = 18
    /\ history[2].values["Satiety"] = 16
    /\ history[3].values["Satiety"] = 14
    /\ DictGet(params, "Satiety").value = 14

\* The parameters as Health.update finds them: every parameter visited before
\* Health has been updated, the others have not.
RECURSIVE SeenByHealth(_, _)
SeenByHealth(ps, i) ==
    IF ps[i].key = "Health" THEN ps
    ELSE SeenByHealth(ParamUpdate(ps, ps[i].key).params, i + 1)

\* A sibling, as Health.update finds it, is exactly at its critical boundary.
AtCriticalBoundary(ps) ==
    \/ DictGet(ps, "Satiety").value = 0
    \/ DictGet(ps, "Mood").value = 0
    \/ 4 * DictGet(ps, "Thirst").value = 3 * (DictGet(ps, "Thirst").min + DictGet(ps, "Thirst").max)
    \/ 4 * DictGet(ps, "Tiredness").value =
            3 * (DictGet(ps, "Tiredness").min + DictGet(ps, "Tiredness").max)

\* C11 (as claimed): when Health's update runs while a sibling is exactly at
\* its critical boundary (satiety 0, mood 0, thirst or tiredness at the 3/4
\* threshold), health falls by exactly 1, clamped at its min, whatever the
\* other siblings are.
C11_BoundaryCostsOne ==
    [][(Update /\ HasKey(params, "Health")) =>
        LET seen   == SeenByHealth(params, 1)
            health == DictGet(params, "Health")
        IN  AtCriticalBoundary(seen) =>
                DictGet(params', "Health").value =
                    Clamp(health.value - 2, health.min, health.max)]_vars

\* The dict ps with its items in another order of insertion.
Reordered(ps, order) == [i \in 1..Len(ps) |-> ps[order[i]]]

\* The value of every parameter of ps.
Values(ps) == [cls \in Keys(ps) |-> DictGet(ps, cls).value]

\* C12 (as claimed): the values update() leaves do not depend on the order in
\* which the parameters are visited: a creature with the same parameters in
\* any other order has the same values after update(), and the change of
\* Health is the one decided by the sibling values before the tick.
C12_OrderIndependent ==
    [][(Update /\ exc' = NoException) =>
        /\ \A order \in Orders(1..Len(params)) :
                Values(UpdateParams(Reordered(params, order), 1).params) = Values(params')
        /\ HasKey(params, "Health") =>
                LET health == DictGet(params, "Health") IN
                DictGet(params', "Health").value =
                    Clamp(health.value + HealthDelta(DictGet(params, "Satiety"),
                                                     DictGet(params, "Thirst"),
                                                     DictGet(params, "Tiredness"),
                                                     DictGet(params, "Mood")),
                          health.min, health.max)]_vars

\* C13: Feed(amount=a).do() on a creature that owns Satiety and Tiredness
\* raises nothing, leaves satiety at clamp(satiety + a) and tiredness at
\* clamp(tiredness - 2), and changes no other parameter, no min or max, and
\* neither the age, the action sets nor the history; amount 5 on satiety 10
\* of (0, 20) gives 15.
C13_FeedEffect ==
    [][\A action \in player_actions :
        (/\ DoPlayerAction(action)
         /\ action.cls = "Feed"
         /\ {"Satiety", "Tiredness"} \subseteq Keys(params)) =>
            LET satiety   == DictGet(params, "Satiety")
                tiredness == DictGet(params, "Tiredness")
            IN  /\ exc' = NoException
                /\ Keys(params') = Keys(params)
                /\ DictGet(params', "Satiety") =
                        [satiety EXCEPT !.value =
                            Clamp(satiety.value + action.amount, satiety.min, satiety.max)]
                /\ DictGet(params', "Tiredness") =
                        [tiredness EXCEPT !.value =
                            Clamp(tiredness.value - 4, tiredness.min, tiredness.max)]
                /\ \A cls \in Keys(params) \ {"Satiety", "Tiredness"} :
                        DictGet(params', cls) = DictGet(params, cls)
                /\ (mature_phases = FeedScenarioKind /\ satiety.value = 20) =>
                        DictGet(params', "Satiety").value = 30
                /\ UNCHANGED <<age, player_actions, creature_actions, history>>]_vars

\* C13 witness: the first call fed the creature with satiety 10 of (0, 20)
\* by 5; satiety is 15 and tiredness went from 1.5 to its min.
C13_FedFive ==
    /\ mature_phases = FeedScenarioKind
    /\ calls = 1
    /\ exc = NoException
    /\ age = 0
    /\ history = <<>>
    /\ DictGet(params, "Satiety").value = 30
    /\ DictGet(params, "Tiredness").value = 0

\* C14: random_action() on a creature with creature actions raises nothing
\* and either leaves the parameters as the do() of one of these actions
\* leaves them, or changes nothing; the first only for an action whose
\* percentage is above 0, the second only if some action's percentage is
\* below 100.  Age, action sets and history stay as they are.
C14_ActsOrIdles ==
    [][(RandomAction /\ creature_actions # {}) =>
        /\ exc' = NoException
        /\ \/ \E action \in creature_actions :
                /\ Prob(action) > 0
                /\ params' = Do(params, action).params
           \/ /\ \E action \in creature_actions : Prob(action) < 100
              /\ params' = params
        /\ UNCHANGED <<age, player_actions, creature_actions, history>>]_vars

\* C14 witness: the first call was random_action() on the creature whose only
\* creature action is ChaseTail(rand_coeff=1.0); mood and tiredness rose by 1.
C14_ChasedTail ==
    /\ mature_phases = ThreePhaseKind
    /\ calls = 1
    /\ age = 0
    /\ exc = NoException
    /\ history = <<>>
    /\ DictGet(params, "Mood").value = 4
    /\ DictGet(params, "Tiredness").value = 2

\* C15 (as claimed): random_action() on a creature without creature actions
\* raises nothing and changes no parameter, age, action set or history.
C15_EmptySetIsNoOp ==
    [][(RandomAction /\ creature_actions = {}) =>
        /\ exc' = NoException
        /\ UNCHANGED creature_vars]_vars

\* C16: a newly constructed Creature has age 0, an empty history, one
\* parameter for each spec of the first phase, with that spec's initial value,
\* min and max, and as action sets the first phase's actions, bound to it.
C16_NewCreature ==
    (Constructed /\ calls = 0) =>
        /\ age = 0
        /\ history = <<>>
        /\ Len(params) = Cardinality(mature_phases[1].params)
        /\ \A spec \in mature_phases[1].params :
                /\ HasKey(params, spec.name)
                /\ DictGet(params, spec.name) =
                        [value |-> spec.initial, min |-> spec.min, max |-> spec.max]
        /\ player_actions =
                {[x EXCEPT !.creature = Self] : x \in mature_phases[1].player_actions}
        /\ creature_actions =
                {[x EXCEPT !.creature = Self] : x \in mature_phases[1].creature_actions}

\* C16 witness: the creature of the four-parameter kind as constructed, with
\* Mood as its first parameter and all five player actions.
C16_PlayCreatureBuilt ==
    /\ mature_phases = PlayKind
    /\ calls = 0
    /\ exc = NoException
    /\ Len(params) = 4
    /\ params[1] = [key |-> "Mood", val |-> [value |-> 1, min |-> 0, max |-> 3]]
    /\ Cardinality(player_actions) = 5
    /\ Cardinality(creature_actions) = 2

\* C17: the entry update() appends holds the creature's age and, for every
\* parameter the creature owns, the value the parameter has after the
\* updates of the tick: for a simple parameter its value before the tick with
\* the tick's change applied and clamped.
C17_EntryIsPostUpdate ==
    [][Update =>
        LET entry == history'[Len(history')] IN
        /\ entry.age = age
        /\ DOMAIN entry.values = Keys(params)
        /\ \A cls \in Keys(params) :
                /\ entry.values[cls] = DictGet(params', cls).value
                /\ cls \in SimpleParameters =>
                        entry.values[cls] =
                            Clamp(DictGet(params, cls).value + TickChange(cls),
                                  DictGet(params, cls).min, DictGet(params, cls).max)]_vars

\* C17 witness: the creature of TwoPhaseKind, Satiety 2 and Tiredness 1, was
\* aged to 1 and then updated; the entry holds age 1, satiety 1, tiredness 1.5.
C17_SavedAtAgeOne ==
    /\ mature_phases = TwoPhaseKind
    /\ calls = 2
    /\ age = 1
    /\ Len(history) = 1
    /\ history[1].age = 1
    /\ history[1].values["Satiety"] = 2
    /\ history[1].values["Tiredness"] = 3

\* The thresholds as claimed, on the scale of 4 * value: a quarter and three
\* quarters of the way from min to max.
ClaimedLow(p) == 4 * p.min + (p.max - p.min)

ClaimedHigh(p) == 4 * p.min + 3 * (p.max - p.min)

\* The change of Health that the rule of Health.update gives with the claimed
\* thresholds, in half-units.
ClaimedHealthDelta(satiety, thirst, tiredness, mood) ==
    IF \/ 0 < satiety.value /\ 4 * satiety.value < ClaimedLow(satiety)
       \/ 0 < mood.value /\ 4 * mood.value < ClaimedLow(mood)
       \/ 4 * thirst.value > ClaimedHigh(thirst)
       \/ 4 * tiredness.value > ClaimedHigh(tiredness)
    THEN -1
    ELSE IF \/ satiety.value = 0
            \/ mood.value = 0
            \/ 4 * thirst.value = ClaimedHigh(thirst)
            \/ 4 * tiredness.value = ClaimedHigh(tiredness)
    THEN -2
    ELSE 1

\* C18 (as claimed): Health.update decides with thresholds that are fractions
\* of each sibling's own range: min + (max - min)/4 for satiety and mood,
\* min + 3*(max - min)/4 for thirst and tiredness, whatever min is.
C18_ThresholdsOfOwnRange ==
    [][(Update /\ HasKey(params, "Health")) =>
        LET seen   == SeenByHealth(params, 1)
            health == DictGet(params, "Health")
        IN  DictGet(params', "Health").value =
                Clamp(health.value + ClaimedHealthDelta(DictGet(seen, "Satiety"),
                                                        DictGet(seen, "Thirst"),
                                                        DictGet(seen, "Tiredness"),
                                                        DictGet(seen, "Mood")),
                      health.min, health.max)]_vars

\* C19: whenever the creature's age lies in a phase range, after any calls,
\* its player actions and creature actions are exactly the actions of that
\* phase, each bound to this creature.
C19_ActionsOfCurrentPhase ==
    (Constructed /\ Containing(age) # {}) =>
        \E i \in Containing(age) :
            LET phase == mature_phases[kind.phases[i].val] IN
            /\ player_actions =
                    {[x EXCEPT !.creature = Self] : x \in phase.player_actions}
            /\ creature_actions =
                    {[x EXCEPT !.creature = Self] : x \in phase.creature_actions}

\* C19 witness: the creature of ThreePhaseKind was aged to 2 and then back to
\* 1: it carries the mood of phase 3 and offers the actions of phase 2.
C19_BackInSecondPhase ==
    /\ mature_phases = ThreePhaseKind
    /\ calls = 2
    /\ age = 1
    /\ DictGet(params, "Mood") = [value |-> 5, min |-> 1, max |-> 6]
    /\ player_actions = {[cls |-> "TeaseHead", creature |-> Self]}
    /\ creature_actions = {[cls |-> "Sleep", rand_coeff |-> 0, creature |-> Self]}

\* C20: update() changes neither the age nor the action sets; a player
\* action's do() and random_action() change neither the age, the action sets
\* nor the history; a step that changes the age is an age assignment and a
\* step that changes the history is an update().
C20_Frames ==
    [][/\ Update => UNCHANGED <<age, player_actions, creature_actions>>
       /\ (\E action \in player_actions : DoPlayerAction(action)) =>
                UNCHANGED <<age, player_actions, creature_actions, history>>
       /\ RandomAction =>
                UNCHANGED <<age, player_actions, creature_actions, history>>
       /\ age' # age => \E new_value \in AgeInputs : SetAge(new_value)
       /\ history' # history => Update]_vars

\* C20 witness: the creature of the four-parameter kind was updated and then
\* played with: the history has the one entry of the tick, with mood 0, the
\* mood is now at its max and the age is still 0.
C20_PlayedAfterTick ==
    /\ mature_phases = PlayKind
    /\ calls = 2
    /\ age = 0
    /\ exc = NoException
    /\ Len(history) = 1
    /\ history[1].values["Mood"] = 0
    /\ DictGet(params, "Mood").value = 3
    /\ Cardinality(player_actions) = 5

====
